---- MODULE Spec2Model ----
(***************************************************************************)
(* The HTTP call layer of blnk-go: NewClient, SetBaseURL, NewRequest,      *)
(* CallWithRetry and DecodeResponse.                                       *)
(*                                                                         *)
(* Go pointers are sequences of length at most one: <<>> is nil and <<v>>  *)
(* points to v.  Durations are whole seconds.                              *)
(***************************************************************************)
EXTENDS Integers, Sequences, FiniteSets, TLC

\* ------------------------------------------------------------------ bounds
MaxOpts == 2
MaxRetryOpt == 2

\* ------------------------------------------------------- program constants
DefaultRetryCount == 3
DefaultTimeout == 10
HttpClientTimeout == 10

\* ------------------------------------------------------------ value spaces
Nil == <<>>

BaseURLs == {Nil, <<"">>, <<"https://a/">>}
\* a URL value whose String() cannot be parsed back, e.g. &url.URL{Host: "a b"}
BadBase == "//a b"
SetURLs == {Nil, <<"https://b/">>, <<BadBase>>}
ApiKeys == {Nil, <<"k1">>}
RetryCounts == (0 - 1) .. MaxRetryOpt
Timeouts == {0, 5}

ClientOptions ==
    [field : {"RetryCount"}, val : RetryCounts]
        \cup [field : {"Timeout"}, val : Timeouts]
        \cup [field : {"Logger"}, val : {1}]

RECURSIVE SeqsUpTo(_, _)
SeqsUpTo(S, n) ==
    IF n = 0 THEN {<<>>}
    ELSE LET shorter == SeqsUpTo(S, n - 1)
         IN  shorter \cup {Append(s, x) : s \in {t \in shorter : Len(t) = n - 1}, x \in S}

OptLists == SeqsUpTo(ClientOptions, MaxOpts)

Methods == {"GET", "POST", "PUT", "DELETE"}

\* an endpoint string, given by what url.Parse makes of it
Endpoints ==
    { [path |-> "transactions", rawQuery |-> <<>>, parses |-> TRUE],
      [path |-> "search", rawQuery |-> <<<<9, 9>>>>, parses |-> TRUE],
      [path |-> "%zz", rawQuery |-> <<>>, parses |-> FALSE] }

\* payloads (opt interface{}): nil, a struct with its fields in declared
\* order, a non-struct value, a struct holding a channel
Payloads ==
    { Nil,
      <<[kind |-> "struct", fields |-> <<>>]>>,
      <<[kind |-> "struct", fields |-> <<<<2, 7>>, <<1, 8>>>>]>>,
      <<[kind |-> "map", fields |-> <<<<1, 8>>>>]>>,
      <<[kind |-> "chan", fields |-> <<<<1, 0>>>>]>> }

Statuses == {200, 304, 404, 500}

\* what c.client.Do can return for one request
Outcomes ==
    { [kind |-> "neterr", status |-> 0, decodable |-> FALSE],
      [kind |-> "redirerr", status |-> 302, decodable |-> FALSE] }
        \cup [kind : {"resp"}, status : Statuses \ {200}, decodable : {FALSE}]
        \cup [kind : {"resp"}, status : {200}, decodable : BOOLEAN]

NoErr == "nil"
NoResult == [resp |-> Nil, err |-> "unset"]
NoArgs == [endpoint |-> CHOOSE e \in Endpoints : e.parses /\ e.rawQuery = <<>>,
           method |-> "GET", opt |-> Nil]
NoConfig == [ApiKey |-> Nil, BaseURL |-> Nil,
             Options |-> [RetryCount |-> 0, Timeout |-> 0, Logger |-> "none"],
             clientTimeout |-> 0]

VARIABLES
    ctor,          \* "none", "ok" (NewClient returned), "panic"
    ApiKey,        \* Client.ApiKey
    BaseURL,       \* Client.BaseURL
    Options,       \* Client.Options
    clientTimeout, \* Client.client.Timeout
    cfg0,          \* the client as NewClient built it
    pc,            \* position of the CallWithRetry call
    args,          \* endpoint, method, opt of the call
    retryCount,    \* local retryCount
    i,             \* loop index
    req,           \* local req, a pointer
    resp,          \* local resp, a pointer to [id, status]
    result,        \* the returned (resp, err)
    target,        \* resBody, the caller's value
    sent,          \* the requests handed to c.client.Do, in order
    outcomes,      \* what Do returned for each of them
    closes,        \* per request sent, the number of Body.Close calls
    logs,          \* the Logger calls
    waits          \* the number of time.Sleep calls

clientVars == <<ctor, ApiKey, BaseURL, Options, clientTimeout, cfg0>>
callVars == <<pc, args, retryCount, i, req, resp, result, target,
              sent, outcomes, closes, logs, waits>>
vars == <<ctor, ApiKey, BaseURL, Options, clientTimeout, cfg0,
          pc, args, retryCount, i, req, resp, result, target,
          sent, outcomes, closes, logs, waits>>

\* ----------------------------------------------------------- construction
DefaultOptions ==
    [RetryCount |-> DefaultRetryCount, Timeout |-> DefaultTimeout, Logger |-> "default"]

\* opt(client): a mutator over the Options fields
ApplyOption(o, opt) ==
    CASE opt.field = "RetryCount" -> [o EXCEPT !.RetryCount = opt.val]
      [] opt.field = "Timeout" -> [o EXCEPT !.Timeout = opt.val]
      [] opt.field = "Logger" -> [o EXCEPT !.Logger = "custom"]

\* the "apply options" loop of NewClient on the pair (Options, client.Timeout)
RECURSIVE ApplyOptions(_, _)
ApplyOptions(c, opts) ==
    IF opts = <<>> THEN c
    ELSE LET o == ApplyOption(c.Options, Head(opts))
             t == IF o.Timeout # 0 THEN o.Timeout ELSE c.clientTimeout
         IN  ApplyOptions([Options |-> o, clientTimeout |-> t], Tail(opts))

NewClient(baseURL, apiKey, opts) ==
    IF baseURL = Nil \/ baseURL[1] = ""
    THEN [panic |-> TRUE, ApiKey |-> apiKey, BaseURL |-> baseURL,
          Options |-> DefaultOptions, clientTimeout |-> HttpClientTimeout]
    ELSE LET c == ApplyOptions([Options |-> DefaultOptions,
                                clientTimeout |-> HttpClientTimeout], opts)
         IN  [panic |-> FALSE, ApiKey |-> apiKey, BaseURL |-> baseURL,
              Options |-> c.Options, clientTimeout |-> c.clientTimeout]

Init ==
    /\ ctor = "none"
    /\ ApiKey = Nil
    /\ BaseURL = Nil
    /\ Options = NoConfig.Options
    /\ clientTimeout = 0
    /\ cfg0 = NoConfig
    /\ pc = "idle"
    /\ args = NoArgs
    /\ retryCount = 0
    /\ i = 0
    /\ req = Nil
    /\ resp = Nil
    /\ result = NoResult
    /\ target = "zero"
    /\ sent = <<>>
    /\ outcomes = <<>>
    /\ closes = <<>>
    /\ logs = <<>>
    /\ waits = 0

NewClientCall ==
    /\ ctor = "none"
    /\ \E baseURL \in BaseURLs, apiKey \in ApiKeys, opts \in OptLists :
          LET c == NewClient(baseURL, apiKey, opts)
          IN  IF c.panic
              THEN /\ ctor' = "panic"
                   /\ cfg0' = [ApiKey |-> c.ApiKey, BaseURL |-> c.BaseURL,
                               Options |-> c.Options,
                               clientTimeout |-> c.clientTimeout]
                   /\ UNCHANGED <<ApiKey, BaseURL, Options, clientTimeout>>
              ELSE /\ ctor' = "ok"
                   /\ ApiKey' = c.ApiKey
                   /\ BaseURL' = c.BaseURL
                   /\ Options' = c.Options
                   /\ clientTimeout' = c.clientTimeout
                   /\ cfg0' = [ApiKey |-> c.ApiKey, BaseURL |-> c.BaseURL,
                               Options |-> c.Options,
                               clientTimeout |-> c.clientTimeout]
    /\ UNCHANGED callVars

\* mutant: the setter also clears the credential
SetBaseURLAndKey(baseURL) ==
    /\ ctor = "ok"
    /\ BaseURL' = baseURL
    /\ ApiKey' = Nil
    /\ UNCHANGED <<ctor, Options, clientTimeout, cfg0>>
    /\ UNCHANGED callVars

SetBaseURL(baseURL) ==
    /\ ctor = "ok"
    /\ BaseURL' = baseURL
    /\ UNCHANGED <<ctor, ApiKey, Options, clientTimeout, cfg0>>
    /\ UNCHANGED callVars

\* ------------------------------------------------------------- NewRequest
CallMethods == Methods \cup {"BAD METHOD"}

RECURSIVE InsertByKey(_, _)
InsertByKey(kv, s) ==
    IF s = <<>> THEN <<kv>>
    ELSE IF kv[1] < Head(s)[1] THEN <<kv>> \o s
    ELSE <<Head(s)>> \o InsertByKey(kv, Tail(s))

RECURSIVE SortByKey(_)
SortByKey(s) ==
    IF s = <<>> THEN <<>> ELSE InsertByKey(Head(s), SortByKey(Tail(s)))

\* query.Values(opt) followed by q.Encode(): key=value pairs sorted by key
QueryValues(p) ==
    IF p.kind = "map"
    THEN [err |-> "query: expects struct input", q |-> <<>>]
    ELSE [err |-> NoErr, q |-> SortByKey(p.fields)]

RECURSIVE JsonFields(_)
JsonFields(fs) ==
    IF fs = <<>> THEN <<>>
    ELSE <<<<"key", Head(fs)[1]>>, <<"val", Head(fs)[2]>>>> \o JsonFields(Tail(fs))

\* json.NewEncoder(bodyBuf).Encode(opt): the fields in declared order, then a newline
JsonEncode(p) ==
    IF p.kind = "chan"
    THEN [err |-> "json: unsupported type", bytes |-> <<>>]
    ELSE [err |-> NoErr,
          bytes |-> <<<<"{", 0>>>> \o JsonFields(p.fields) \o <<<<"}", 0>>, <<"\n", 0>>>>]

\* if method == http.MethodGet && opt != nil: the payload goes to the query
PayloadInQuery(method, opt) == method = "GET" /\ opt # Nil

\* mutant: the method test is dropped, every payload is also written to the body
PayloadInBodyAnyMethod(method, opt) == opt # Nil

\* if method != http.MethodGet && opt != nil: the payload goes to the body
PayloadInBody(method, opt) == method # "GET" /\ opt # Nil

\* mutant: the X-Blnk-Key header is never added
RequestHeaderNoKey(apiKey) == <<<<"Content-Type", "application/json">>>>

\* the req.Header.Add calls, in order
RequestHeader(apiKey) ==
    (IF apiKey # Nil THEN <<<<"X-Blnk-Key", apiKey[1]>>>> ELSE <<>>)
        \o <<<<"Content-Type", "application/json">>>>

\* url.Parse(c.BaseURL.String() + endpoint) returns no error
UrlParses(baseURL, endpoint) == baseURL[1] # BadBase /\ endpoint.parses

\* c.NewRequest(endpoint, method, opt), for c.BaseURL # nil
NewRequest(baseURL, apiKey, endpoint, method, opt) ==
    LET qv == IF PayloadInQuery(method, opt)
              THEN QueryValues(opt[1]) ELSE [err |-> NoErr, q |-> endpoint.rawQuery]
        je == IF PayloadInBody(method, opt)
              THEN JsonEncode(opt[1]) ELSE [err |-> NoErr, bytes |-> <<>>]
        hasBody == PayloadInBody(method, opt)
        parses == UrlParses(baseURL, endpoint)
    IN  CASE ~parses -> [err |-> "url: parse error", req |-> Nil]
          [] parses /\ qv.err # NoErr -> [err |-> qv.err, req |-> Nil]
          [] parses /\ qv.err = NoErr /\ je.err # NoErr ->
                [err |-> je.err, req |-> Nil]
          [] parses /\ qv.err = NoErr /\ je.err = NoErr
               /\ method \notin Methods -> [err |-> "net/http: invalid method", req |-> Nil]
          [] OTHER ->
                [err |-> NoErr,
                 req |-> <<[method |-> method,
                            base |-> baseURL[1],
                            path |-> endpoint.path,
                            rawQuery |-> qv.q,
                            hasBody |-> hasBody,
                            body |-> je.bytes,
                            header |-> RequestHeader(apiKey)]>>]

\* -------------------------------------------------------- DecodeResponse
\* c.CheckResponse(resp): a status outside 2xx is an error
CheckResponse(r) ==
    IF r.status >= 200 /\ r.status <= 299 THEN NoErr ELSE "status error"

\* json.NewDecoder(resp.Body).Decode(v): the possible (err, v) pairs; a failed
\* parse may leave v untouched or partly written
JsonDecode(o, v) ==
    IF o.decodable
    THEN {[err |-> NoErr, v |-> "decoded"]}
    ELSE {[err |-> "json: decode error", v |-> v], [err |-> "json: decode error", v |-> "partial"]}

\* mutant: the body is decoded into v before the status is checked
DecodeResponseDecodeFirst(r, o, v) ==
    {[err |-> IF CheckResponse(r) # NoErr THEN CheckResponse(r) ELSE d.err, v |-> d.v] :
        d \in JsonDecode(o, v)}

DecodeResponse(r, o, v) ==
    IF CheckResponse(r) # NoErr
    THEN {[err |-> CheckResponse(r), v |-> v]}
    ELSE JsonDecode(o, v)

\* --------------------------------------------------------- CallWithRetry
\* the loop condition i < retryCount
LoopCond(k, n) == k < n

\* mutant: every response is taken for a server fault
IsServerFaultFrom200(status) == status >= 200

\* mutant: client errors are taken for server faults too
IsServerFaultFrom400(status) == status >= 400

\* if resp.StatusCode >= 500
IsServerFault(status) == status >= 500

\* entry: retryCount := c.Options.RetryCount; var resp *http.Response
CallStart(endpoint, method, opt) ==
    /\ ctor = "ok"
    /\ pc = "idle"
    /\ args' = [endpoint |-> endpoint, method |-> method, opt |-> opt]
    /\ retryCount' = Options.RetryCount
    /\ i' = 0
    /\ resp' = Nil
    /\ pc' = "loop"
    /\ UNCHANGED <<req, result, target, sent, outcomes, closes, logs, waits>>
    /\ UNCHANGED clientVars

\* mutant: a build error is treated like a transient failure (wait, continue)
BuildRetriesOnError ==
    /\ pc = "loop"
    /\ LoopCond(i, retryCount)
    /\ IF BaseURL = Nil
       THEN /\ pc' = "panic"
            /\ UNCHANGED <<req, i, waits>>
       ELSE LET b == NewRequest(BaseURL, ApiKey, args.endpoint, args.method, args.opt)
            IN  IF b.err # NoErr
                THEN /\ i' = i + 1
                     /\ waits' = waits + 1
                     /\ pc' = "loop"
                     /\ UNCHANGED req
                ELSE /\ req' = b.req
                     /\ pc' = "send"
                     /\ UNCHANGED <<i, waits>>
    /\ UNCHANGED <<args, retryCount, resp, result, target, sent, outcomes, closes, logs>>
    /\ UNCHANGED clientVars

\* i < retryCount: req, err := c.NewRequest(...); if err != nil return nil, err
Build ==
    /\ pc = "loop"
    /\ LoopCond(i, retryCount)
    /\ IF BaseURL = Nil
       THEN /\ pc' = "panic"
            /\ UNCHANGED <<req, result>>
       ELSE LET b == NewRequest(BaseURL, ApiKey, args.endpoint, args.method, args.opt)
            IN  IF b.err # NoErr
                THEN /\ result' = [resp |-> Nil, err |-> b.err]
                     /\ pc' = "done"
                     /\ UNCHANGED req
                ELSE /\ req' = b.req
                     /\ pc' = "send"
                     /\ UNCHANGED result
    /\ UNCHANGED <<args, retryCount, i, resp, target, sent, outcomes, closes, logs, waits>>
    /\ UNCHANGED clientVars

\* mutant: a decode failure is returned without being logged
DecodeFailureLogNone(err, n) == <<>>

\* if err != nil { c.Options.Logger.Error(err.Error()) } after DecodeResponse
DecodeFailureLog(err, n) ==
    IF err # NoErr
    THEN <<[level |-> "Error", attempt |-> n, logger |-> Options.Logger]>>
    ELSE <<>>

\* resp, err = c.client.Do(req) and the rest of the loop body
Send(o) ==
    /\ pc = "send"
    /\ sent' = Append(sent, req[1])
    /\ outcomes' = Append(outcomes, o)
    /\ closes' = Append(closes, IF o.kind = "redirerr" THEN 1 ELSE 0)
    /\ LET n == Len(sent) + 1
           r == IF o.kind = "neterr" THEN Nil ELSE <<[id |-> n, status |-> o.status]>>
       IN  /\ resp' = r
           /\ IF o.kind \in {"neterr", "redirerr"}
              THEN /\ logs' = Append(logs, [level |-> "Info", attempt |-> n,
                                            logger |-> Options.Logger])
                   /\ waits' = waits + 1
                   /\ i' = i + 1
                   /\ pc' = "loop"
                   /\ UNCHANGED <<result, target>>
              ELSE IF IsServerFault(o.status)
              THEN /\ logs' = Append(logs, [level |-> "Error", attempt |-> n,
                                            logger |-> Options.Logger])
                   /\ waits' = waits + 1
                   /\ i' = i + 1
                   /\ pc' = "loop"
                   /\ UNCHANGED <<result, target>>
              ELSE \E d \in DecodeResponse(r[1], o, target) :
                      /\ target' = d.v
                      /\ result' = [resp |-> r, err |-> d.err]
                      /\ logs' = logs \o DecodeFailureLog(d.err, n)
                      /\ pc' = "done"
                      /\ UNCHANGED <<waits, i>>
    /\ UNCHANGED <<args, retryCount, req>>
    /\ UNCHANGED clientVars

\* mutant: the last response is returned along with the exhaustion error
ExhaustedReturnsResp ==
    /\ pc = "loop"
    /\ ~LoopCond(i, retryCount)
    /\ IF resp = Nil
       THEN /\ pc' = "panic"
            /\ UNCHANGED <<result, closes>>
       ELSE /\ closes' = [closes EXCEPT ![resp[1].id] = @ + 1]
            /\ result' = [resp |-> resp, err |-> "max retry count exceeded"]
            /\ pc' = "done"
    /\ UNCHANGED <<args, retryCount, i, req, resp, target, sent, outcomes, logs, waits>>
    /\ UNCHANGED clientVars

\* after the loop: defer resp.Body.Close(); return nil, errors.New(...)
Exhausted ==
    /\ pc = "loop"
    /\ ~LoopCond(i, retryCount)
    /\ IF resp = Nil
       THEN /\ pc' = "panic"
            /\ UNCHANGED <<result, closes>>
       ELSE /\ closes' = [closes EXCEPT ![resp[1].id] = @ + 1]
            /\ result' = [resp |-> Nil, err |-> "max retry count exceeded"]
            /\ pc' = "done"
    /\ UNCHANGED <<args, retryCount, i, req, resp, target, sent, outcomes, logs, waits>>
    /\ UNCHANGED clientVars

Next ==
    \/ NewClientCall
    \/ \E b \in SetURLs : SetBaseURL(b)
    \/ \E e \in Endpoints, m \in CallMethods, p \in Payloads : CallStart(e, m, p)
    \/ Build
    \/ \E o \in Outcomes : Send(o)
    \/ Exhausted

Spec == Init /\ [][Next]_vars

\* a started call keeps running: NewRequest, Do and Sleep each return, and the
\* caller's goroutine is scheduled
FairSpec ==
    /\ Spec
    /\ WF_vars(Build)
    /\ WF_vars(\E o \in Outcomes : Send(o))
    /\ WF_vars(Exhausted)

\* ================================================================ claims
Last(s) == s[Len(s)]
Front(s) == SubSeq(s, 1, Len(s) - 1)

\* a transport error, or a response with status >= 500
Transient(o) == o.kind \in {"neterr", "redirerr"} \/ (o.kind = "resp" /\ o.status >= 500)
AllTransient(s) == \A k \in 1 .. Len(s) : Transient(s[k])
Success(o) == o.kind = "resp" /\ o.status >= 200 /\ o.status <= 299 /\ o.decodable
Permanent(o) ==
    /\ o.kind = "resp"
    /\ \/ (o.status >= 400 /\ o.status <= 499)
       \/ (o.status >= 200 /\ o.status <= 299 /\ ~o.decodable)

RetryExhausted == "max retry count exceeded"
DecodeErrors == {"status error", "json: decode error"}
BuildErrors == {"url: parse error", "query: expects struct input",
                "json: unsupported type", "net/http: invalid method"}
Ended == pc \in {"done", "panic"}

\* C1: when all N >= 1 attempts of a call ended in transient failures, the call
\* has sent exactly N requests and returns RetryExhausted as an error value;
\* it does not crash.
C1_ExhaustedIsReturned ==
    (retryCount >= 1 /\ Len(outcomes) = retryCount /\ AllTransient(outcomes) /\ Ended)
        => (pc = "done" /\ result.err = RetryExhausted /\ Len(sent) = retryCount)

\* C2: once k < retryCount transient failures have been followed by a decodable
\* 2xx response, the call has returned success with that response after
\* exactly k+1 requests, and nothing more is sent.
C2_SuccessAfterTransients ==
    (Len(outcomes) >= 1 /\ Success(Last(outcomes)) /\ AllTransient(Front(outcomes)))
        => /\ pc = "done"
           /\ result.err = NoErr
           /\ result.resp = <<[id |-> Len(outcomes), status |-> Last(outcomes).status]>>
           /\ Len(sent) = Len(outcomes)
           /\ Len(sent) <= retryCount

C2_Witness ==
    /\ pc = "done"
    /\ Len(outcomes) = 3
    /\ outcomes[1].kind = "neterr"
    /\ outcomes[2].kind = "resp" /\ outcomes[2].status >= 500
    /\ Success(outcomes[3])
    /\ result.err = NoErr

\* C3: every attempt that was followed by another one ended in a transient
\* failure; a 4xx response or an undecodable 2xx response ends the call at
\* once with a DecodeError and the response, whatever budget remains.
C3_PermanentNotRetried ==
    /\ \A k \in 1 .. Len(outcomes) - 1 : Transient(outcomes[k])
    /\ (Len(outcomes) >= 1 /\ Permanent(Last(outcomes)))
          => /\ pc = "done"
             /\ result.err \in DecodeErrors
             /\ result.resp = <<[id |-> Len(outcomes), status |-> Last(outcomes).status]>>
             /\ Len(sent) = Len(outcomes)

C3_Witness ==
    /\ pc = "done"
    /\ retryCount = 3
    /\ Len(sent) = 1
    /\ outcomes[1].kind = "resp" /\ outcomes[1].status = 404
    /\ result.err = "status error"

\* C4: during a call the number of requests sent is at most the configured
\* retry count.
C4_RetryCountBoundsRequests ==
    (ctor = "ok" /\ pc # "idle") => Len(sent) <= Options.RetryCount

\* C5: NewClient with a missing or empty base address fails with an error
\* result, not an abort, and no request has been attempted.
C5_MissingBaseIsErrorResult ==
    (ctor # "none" /\ (cfg0.BaseURL = Nil \/ cfg0.BaseURL = <<"">>))
        => (ctor = "error" /\ sent = <<>>)

\* C6: when the call has returned, every response obtained during it has had
\* its body released exactly once.
C6_BodiesReleasedOnce ==
    pc = "done" =>
        \A k \in 1 .. Len(outcomes) : outcomes[k].kind # "neterr" => closes[k] = 1

PairSet(s) == {s[k] : k \in 1 .. Len(s)}
BodyPairs(b) ==
    {<<b[k][2], b[k + 1][2]>> : k \in {j \in 1 .. Len(b) - 1 : b[j][1] = "key"}}
BuiltRequests == PairSet(req) \cup PairSet(sent)

\* C7: a request built for GET/POST/PUT/DELETE with a payload carries it in
\* exactly one place: in the query and no body for GET, in a non-empty JSON
\* body and no added query parameters otherwise.
C7_PayloadInOnePlace ==
    \A r \in BuiltRequests :
        (args.method \in Methods /\ args.opt # Nil) =>
            IF args.method = "GET"
            THEN /\ ~r.hasBody
                 /\ r.body = <<>>
                 /\ PairSet(r.rawQuery) = PairSet(args.opt[1].fields)
            ELSE /\ r.hasBody
                 /\ Len(r.body) > 0
                 /\ BodyPairs(r.body) = PairSet(args.opt[1].fields)
                 /\ r.rawQuery = args.endpoint.rawQuery

C7_Witness ==
    /\ Len(sent) >= 1
    /\ args.method = "GET"
    /\ args.opt # Nil
    /\ Len(args.opt[1].fields) = 2
    /\ args.endpoint.rawQuery # <<>>
    /\ sent[1].rawQuery = <<<<1, 8>>, <<2, 7>>>>

HeaderValues(h, name) == {h[k][2] : k \in {j \in 1 .. Len(h) : h[j][1] = name}}
HeaderCount(h, name) == Cardinality({j \in 1 .. Len(h) : h[j][1] = name})

\* C8: every request sent, first attempt or retry, carries Content-Type:
\* application/json, and X-Blnk-Key with the credential exactly when a
\* credential is configured.
C8_HeadersOnEveryAttempt ==
    \A k \in 1 .. Len(sent) :
        /\ HeaderCount(sent[k].header, "Content-Type") = 1
        /\ HeaderValues(sent[k].header, "Content-Type") = {"application/json"}
        /\ IF ApiKey # Nil
           THEN /\ HeaderCount(sent[k].header, "X-Blnk-Key") = 1
                /\ HeaderValues(sent[k].header, "X-Blnk-Key") = {ApiKey[1]}
           ELSE HeaderCount(sent[k].header, "X-Blnk-Key") = 0

C8_Witness ==
    /\ Len(sent) = 3
    /\ ApiKey # Nil
    /\ Transient(outcomes[1])
    /\ Transient(outcomes[2])

C10_RetryCountPositive ==
    ctor = "ok" =>
        /\ Options.RetryCount >= 1
        /\ (pc = "done" /\ result.err \notin BuildErrors) => Len(sent) >= 1

\* C11: when a call has returned (not with a build failure), the number of
\* waits is the number of attempts minus one; in particular there is no wait
\* after the last failed attempt before RetryExhausted is reported.
C11_NoTrailingWait ==
    (pc = "done" /\ Len(sent) >= 1 /\ result.err \notin BuildErrors)
        => waits = Len(sent) - 1

\* the attempt now being built fails to build
BuildFails ==
    /\ pc = "loop"
    /\ i < retryCount
    /\ BaseURL # Nil
    /\ NewRequest(BaseURL, ApiKey, args.endpoint, args.method, args.opt).err # NoErr

\* C12: the step of an attempt whose request fails to build returns the build
\* error with no response, and sends nothing, waits for nothing and starts no
\* further attempt; a call that returned a build error has sent and waited
\* only for the attempts before it.
C12_BuildFailureIsPermanent ==
    /\ [](result.err \in BuildErrors =>
            (pc = "done" /\ result.resp = Nil /\ Len(sent) = i /\ waits = i))
    /\ [][(BuildFails /\ callVars' # callVars) =>
            /\ pc' = "done"
            /\ result'.resp = Nil
            /\ result'.err \in BuildErrors
            /\ UNCHANGED <<sent, waits, i, logs, target>>]_vars

C12_Witness ==
    /\ pc = "done"
    /\ result.err = "url: parse error"
    /\ args.endpoint.parses
    /\ Len(sent) = 1
    /\ waits = 1
    /\ retryCount = 3

\* C13: a returned result carries a response exactly when the error is nil or
\* a decode/status error, and then it is the response of the last attempt
\* sent; with RetryExhausted or a build error the response is nil; the error
\* is nil only when the last attempt was a decodable 2xx response.
C13_ResultShape ==
    pc = "done" =>
        /\ result.err \in {NoErr, RetryExhausted} \cup DecodeErrors \cup BuildErrors
        /\ (result.resp # Nil) <=> (result.err \in {NoErr} \cup DecodeErrors)
        /\ result.resp # Nil =>
              /\ Len(outcomes) >= 1
              /\ Last(outcomes).kind = "resp"
              /\ result.resp = <<[id |-> Len(sent), status |-> Last(outcomes).status]>>
        /\ result.err \in DecodeErrors => ~Success(Last(outcomes))
        /\ result.err = NoErr => (Len(outcomes) >= 1 /\ Success(Last(outcomes)))

C13_Witness ==
    /\ pc = "done"
    /\ result.err = RetryExhausted
    /\ result.resp = Nil
    /\ resp # Nil
    /\ Len(sent) = 3

TransientAttempts == {k \in 1 .. Len(outcomes) : Transient(outcomes[k])}

\* C14: the logger is called once for each attempt that ended in a transient
\* failure and once for a terminal decode/status failure, and never for a
\* build failure or a successful attempt.
C14_LogCalls ==
    /\ Len(logs) = Cardinality(TransientAttempts)
                      + (IF result.err \in DecodeErrors THEN 1 ELSE 0)
    /\ \A j \in 1 .. Len(logs) :
          /\ logs[j].attempt \in 1 .. Len(outcomes)
          /\ \/ logs[j].attempt \in TransientAttempts
             \/ (logs[j].attempt = Len(outcomes) /\ result.err \in DecodeErrors)
          /\ \A k \in 1 .. Len(logs) : logs[k].attempt = logs[j].attempt => k = j

C14_Witness ==
    /\ pc = "done"
    /\ Len(outcomes) = 3
    /\ outcomes[1].kind = "neterr"
    /\ outcomes[2].kind = "resp"
    /\ outcomes[3].status = 404
    /\ Len(logs) = 3

\* C15: for every client NewClient returns, the timeout the transport enforces
\* (client.Timeout) equals the configured Options.Timeout.
C15_TransportTimeoutIsConfigured ==
    ctor = "ok" => clientTimeout = Options.Timeout

UnreleasedBodies == {k \in 1 .. Len(outcomes) : outcomes[k].kind = "resp" /\ closes[k] = 0}

\* C17: at any time during a call at most one response body is unreleased:
\* the body of a 5xx response is released before the next request is sent.
C17_OneOpenBody ==
    Cardinality(UnreleasedBodies) <= 1

\* C18: all attempts of one call send the same request.
C18_SameRequestOnEveryAttempt ==
    \A j, k \in 1 .. Len(sent) : sent[j] = sent[k]

\* C16: every started call eventually returns, in one of the terminal states
\* Success, PermanentFailure or Exhausted.
C16_CallTerminates ==
    (pc = "loop") ~> (pc = "done")

Is2xx(o) == o.kind = "resp" /\ o.status >= 200 /\ o.status <= 299
Attempts2xx == {k \in 1 .. Len(outcomes) : Is2xx(outcomes[k])}

\* C19: the caller's target changes only in the step that decodes a 2xx
\* response; transport errors, non-2xx responses, build failures and
\* RetryExhausted leave it as it was; the decode step ends the call, so it
\* runs at most once.
C19_TargetWrittenOnlyByDecode ==
    /\ [](target # "zero" =>
            (pc = "done" /\ Len(outcomes) >= 1 /\ Is2xx(Last(outcomes))))
    /\ [](Cardinality(Attempts2xx) <= 1)
    /\ [][target' # target =>
            (pc = "send" /\ pc' = "done" /\ Is2xx(Last(outcomes')))]_vars
    /\ [][(outcomes' # outcomes /\ Is2xx(Last(outcomes'))) => pc' = "done"]_vars

C19_Witness ==
    /\ pc = "done"
    /\ target = "partial"
    /\ Len(outcomes) = 2
    /\ Transient(outcomes[1])
    /\ result.err = "json: decode error"

====
